---- MODULE Spec2Model ----
(***************************************************************************)
(* Model of the booking portal's request handlers and of the store they    *)
(* share: POST /api/book (pages/api/book.js), PATCH on appointments        *)
(* (handlePatch), POST /api/doctor/availability and GET                    *)
(* /api/patient/check-availability, together with the conversational       *)
(* client's availability step (checkAvailability).                         *)
(*                                                                         *)
(* Every await on the store is one step of a handler, so that the steps of *)
(* concurrent requests interleave as the event loop and the remote store   *)
(* allow.  The server's time zone is taken to be UTC (no DST), so that a   *)
(* date's weekday and the wall-clock arithmetic of the slot loop are the   *)
(* calendar's own.                                                         *)
(***************************************************************************)
EXTENDS Integers, Sequences, FiniteSets, TLC

VARIABLES
    appointments,         \* table public.appointments, in insertion order
    notifications,        \* table public.notifications, in insertion order
    doctor_availability,  \* table public.doctor_availability (a set of rows)
    book,                 \* book[r]: one invocation of POST /api/book
    avail,                \* one invocation of GET /api/patient/check-availability
    voice,                \* the conversational client around checkAvailability
    doctorRes,            \* the last reply of the doctor's endpoints (schedule POST, PATCH)
    auth,                 \* the state of AuthProvider (user, userProfile, loading)
    patients,             \* table public.patients (a set of rows)
    create                \* create[c]: one lazy creation of a patient profile

vars == <<appointments, notifications, doctor_availability, book, avail, voice, doctorRes,
          auth, patients, create>>

NoVal == "null"

(***************************************************************************)
(* Strings the code takes apart (times, specialty labels) are sequences of *)
(* one-character strings.                                                  *)
(***************************************************************************)
Digits == <<"0", "1", "2", "3", "4", "5", "6", "7", "8", "9">>

DigitChar(n) == Digits[n + 1]

DigitVal(c) == CHOOSE n \in 0..9 : Digits[n + 1] = c

\* String(n).padStart(2, '0') for 0 <= n <= 99
PadStart2(n) == IF n < 10 THEN <<"0", DigitChar(n)>>
                ELSE <<DigitChar(n \div 10), DigitChar(n % 10)>>

\* `${hours}:${minutes}` of a wall-clock time given in minutes after midnight
TimeString(mins) == PadStart2(mins \div 60) \o <<":">> \o PadStart2(mins % 60)

Max(a, b) == IF a >= b THEN a ELSE b

Min(a, b) == IF a <= b THEN a ELSE b

\* s.slice(0, n)
Slice0(s, n) == SubSeq(s, 1, Min(n, Len(s)))

\* s.includes(c)
Includes(s, c) == \E i \in 1..Len(s) : s[i] = c

SeqToSet(s) == {s[i] : i \in 1..Len(s)}

(***************************************************************************)
(* The store.  The doctors table is not written by any modelled handler.   *)
(***************************************************************************)
Cardiologist == <<"C", "a", "r", "d", "i", "o", "l", "o", "g", "i", "s", "t">>

Dermatologist == <<"D", "e", "r", "m", "a", "t", "o", "l", "o", "g", "i", "s", "t">>

SarahSmith == <<"S", "a", "r", "a", "h", " ", "S", "m", "i", "t", "h">>

OmarKhan == <<"O", "m", "a", "r", " ", "K", "h", "a", "n">>

DoctorsTable ==
    { [id |-> "d1", user_id |-> "u1", specialty |-> Cardiologist, full_name |-> SarahSmith],
      [id |-> "d2", user_id |-> "u2", specialty |-> Dermatologist, full_name |-> OmarKhan] }

DoctorIds == {d.id : d \in DoctorsTable}

Users == {"u1", "u2", "u3"}

Statuses == {"pending", "confirmed", "cancelled", "completed", "no-show"}

\* .in('status', ['pending', 'confirmed'])
ActiveStatuses == {"pending", "confirmed"}

\* A value of a `time` column as the store hands it back: HH:MM:SS.
TimeColumn(t) == IF Len(t) = 5 THEN t \o <<":", "0", "0">> ELSE t

\* The conflict query with 'confirmed' left out of its status list
ConflictRows_PendingOnly(appts, d, date, time) ==
    { a \in SeqToSet(appts) :
        /\ a.doctor_id = d
        /\ a.appointment_date = date
        /\ a.appointment_time = TimeColumn(time)
        /\ a.status = "pending" }

\* .eq('doctor_id', d).eq('appointment_date', date).eq('appointment_time', time)
\*  .in('status', ['pending', 'confirmed'])
ConflictRows(appts, d, date, time) ==
    { a \in SeqToSet(appts) :
        /\ a.doctor_id = d
        /\ a.appointment_date = date
        /\ a.appointment_time = TimeColumn(time)
        /\ a.status \in ActiveStatuses }

\* A store that enforces no uniqueness on appointments
UniqueViolation_Unenforced(appts, row) == FALSE

\* The store's uniqueness enforcement on (doctor, date, time) among the rows
\* whose status is pending or confirmed: would `row` be a second such row?
UniqueViolation(appts, row) ==
    /\ row.status \in ActiveStatuses
    /\ \E a \in SeqToSet(appts) :
          /\ a.id # row.id
          /\ a.status \in ActiveStatuses
          /\ a.doctor_id = row.doctor_id
          /\ a.appointment_date = row.appointment_date
          /\ a.appointment_time = row.appointment_time

UpperCase == <<"A", "B", "C", "D", "E", "F", "G", "H", "I", "J", "K", "L", "M",
               "N", "O", "P", "Q", "R", "S", "T", "U", "V", "W", "X", "Y", "Z">>

LowerCase == <<"a", "b", "c", "d", "e", "f", "g", "h", "i", "j", "k", "l", "m",
               "n", "o", "p", "q", "r", "s", "t", "u", "v", "w", "x", "y", "z">>

ToLower(c) == IF \E i \in 1..26 : UpperCase[i] = c
              THEN LowerCase[CHOOSE i \in 1..26 : UpperCase[i] = c]
              ELSE c

\* .ilike('specialty', `%${speciality}%`): case-insensitive substring
ILike(label, pattern) ==
    \E i \in 0..(Len(label) - Len(pattern)) :
        \A j \in 1..Len(pattern) : ToLower(label[i + j]) = ToLower(pattern[j])

(***************************************************************************)
(* POST /api/book                                                          *)
(*                                                                         *)
(* An absent string is the empty string, an absent row is the null row of  *)
(* its table (rows are numbered from 1, the null row has id 0), so that    *)
(* every field has one type.                                               *)
(***************************************************************************)
Reqs == {"r1", "r2"}

Smith == <<"S", "m", "i", "t", "h">>

Cardio == <<"c", "a", "r", "d", "i", "o">>

Unknown == <<"u", "n", "k", "n", "o", "w", "n">>

\* Request bodies: complete ones, one of them with fields of its own for the
\* appointment's status and booking method, and one for each missing field.
Bodies ==
    { [doctor |-> Smith, speciality |-> <<>>, date |-> "2025-12-01", time |-> TimeString(540), patientId |-> "p1",
       status |-> NoVal, booking_method |-> NoVal],
      [doctor |-> Smith, speciality |-> <<>>, date |-> "2025-12-01", time |-> TimeString(570), patientId |-> "p1",
       status |-> "confirmed", booking_method |-> "web"],
      [doctor |-> Smith, speciality |-> Cardio, date |-> "2025-12-01", time |-> TimeString(540), patientId |-> "p1",
       status |-> NoVal, booking_method |-> NoVal],
      [doctor |-> <<>>, speciality |-> Cardio, date |-> "2025-12-01", time |-> TimeString(540), patientId |-> "p1",
       status |-> NoVal, booking_method |-> NoVal],
      [doctor |-> Smith, speciality |-> <<>>, date |-> NoVal, time |-> TimeString(540), patientId |-> "p1",
       status |-> NoVal, booking_method |-> NoVal],
      [doctor |-> Smith, speciality |-> <<>>, date |-> "2025-12-01", time |-> <<>>, patientId |-> "p1",
       status |-> NoVal, booking_method |-> NoVal],
      [doctor |-> Smith, speciality |-> <<>>, date |-> "2025-12-01", time |-> TimeString(540), patientId |-> NoVal,
       status |-> NoVal, booking_method |-> NoVal] }

NoBody == [doctor |-> <<>>, speciality |-> <<>>, date |-> NoVal, time |-> <<>>, patientId |-> NoVal,
       status |-> NoVal, booking_method |-> NoVal]

NoDoctor == [id |-> NoVal, user_id |-> NoVal, specialty |-> <<>>, full_name |-> <<>>]

NoAppointment ==
    [id |-> 0, patient_id |-> NoVal, doctor_id |-> NoVal, appointment_date |-> NoVal,
     appointment_time |-> <<>>, status |-> NoVal, booking_method |-> NoVal]

\* What the name matcher (an external language model) may answer: any id of
\* the roster, null or an id outside the roster, with any confidence (in
\* tenths); or the call or the parse of its answer throws.
MatchResults ==
    [match_id : DoctorIds \cup {NoVal, "d9"}, confidence : {5, 6, 7}, throws : {FALSE}]

LookupOutcomes ==
    MatchResults \cup {[match_id |-> NoVal, confidence |-> 0, throws |-> TRUE]}

\* res.status(code).json({error, details, appointment}); `details` is a
\* fixed text followed by a term of the request.
Response(code, error, text, term, appointment) ==
    [code |-> code, error |-> error, details |-> [text |-> text, term |-> term],
     appointment |-> appointment]

NoResponse == Response(0, NoVal, NoVal, <<>>, NoAppointment)

IdleBook ==
    [pc |-> "idle", body |-> NoBody, selectedDoctor |-> NoDoctor, conflictError |-> FALSE,
     appointment |-> NoAppointment, response |-> NoResponse]

\* A validation that asks for the doctor only
MissingRequired_DoctorOnly(b) == b.doctor = <<>>

\* if (!doctor || !date || !time || !patientId)
MissingRequired(b) ==
    b.doctor = <<>> \/ b.date = NoVal \/ b.time = <<>> \/ b.patientId = NoVal

\* A search term that is always the default
SearchTerm_Default(b) == Unknown

\* const searchTerm = doctor || speciality || 'unknown'
SearchTerm(b) ==
    IF b.doctor # <<>> THEN b.doctor
    ELSE IF b.speciality # <<>> THEN b.speciality
    ELSE Unknown

\* A match accepted from confidence 0.6 on
NameMatch_AtThreshold(m) ==
    IF m.match_id # NoVal /\ m.confidence >= 6
    THEN {d \in DoctorsTable : d.id = m.match_id}
    ELSE {}

\* matchResult && matchResult.match_id && matchResult.confidence > 0.6, then
\* allDoctorsDB.find(d => d.id === matchResult.match_id)
NameMatch(m) ==
    IF m.match_id # NoVal /\ m.confidence > 6
    THEN {d \in DoctorsTable : d.id = m.match_id}
    ELSE {}

SpecialtyMatch(speciality) ==
    {d \in DoctorsTable : ILike(d.specialty, speciality)}

\* The two lookups in the other order: the specialty match, then the name
ResolveDoctors_SpecialtyFirst(b, m) ==
    LET bySpecialty == IF b.speciality # <<>> THEN SpecialtyMatch(b.speciality) ELSE {}
    IN  IF bySpecialty = {} /\ b.doctor # <<>>
        THEN NameMatch(m)
        ELSE bySpecialty

\* The rows `doctors` may hold after the two lookups (lines 49-164).
ResolveDoctors(b, m) ==
    LET byName == IF b.doctor # <<>> THEN NameMatch(m) ELSE {}
    IN  IF byName = {} /\ b.speciality # <<>>
        THEN SpecialtyMatch(b.speciality)
        ELSE byName

\* res.status(...).json(...): the handler has returned.
Done(r, resp) ==
    book' = [book EXCEPT ![r].pc = "done", ![r].response = resp]

Received(r, b, resp) ==
    book' = [book EXCEPT ![r] =
                [IdleBook EXCEPT !.pc = "done", !.body = b, !.response = resp]]

\* Validation and the provider lookup, up to `selectedDoctor = doctors[0]`,
\* for the body b and the matcher's answer m.
Book_Lookup(r, b, m) ==
    /\ book[r].pc = "idle"
    /\ IF MissingRequired(b)
       THEN Received(r, b, Response(400, "Missing required fields: doctor, date, time, patientId",
                                    NoVal, <<>>, NoAppointment))
       ELSE IF m.throws
       THEN Received(r, b, Response(500, "Failed to find doctor", NoVal, <<>>, NoAppointment))
       ELSE IF ResolveDoctors(b, m) = {}
       THEN Received(r, b, Response(404, "No doctor found matching the criteria",
                                    "No doctor found for: ", SearchTerm(b), NoAppointment))
       ELSE \E d \in ResolveDoctors(b, m) :
               book' = [book EXCEPT ![r] =
                   [IdleBook EXCEPT !.pc = "resolved", !.body = b, !.selectedDoctor = d]]
    /\ UNCHANGED <<appointments, notifications, doctor_availability, avail, voice, doctorRes, auth, patients, create>>

\* The conflict query and its two ifs (lines 184-202).  A failed query
\* leaves existingAppointments null and conflictError set.
Book_ConflictCheck(r, failed) ==
    /\ book[r].pc = "resolved"
    /\ LET b == book[r].body
           existingAppointments ==
               IF failed THEN {}
               ELSE ConflictRows(appointments, book[r].selectedDoctor.id, b.date, b.time)
       IN  IF existingAppointments # {}
           THEN Done(r, Response(409, "Time slot not available", NoVal, <<>>, NoAppointment))
           ELSE book' = [book EXCEPT ![r].pc = "checked", ![r].conflictError = failed]
    /\ UNCHANGED <<appointments, notifications, doctor_availability, avail, voice, doctorRes, auth, patients, create>>

\* A row that takes its status and booking method from the body
NewAppointment_FromBody(appts, b, d) ==
    [id |-> Len(appts) + 1,
     patient_id |-> b.patientId,
     doctor_id |-> d.id,
     appointment_date |-> b.date,
     appointment_time |-> TimeColumn(b.time),
     status |-> IF b.status # NoVal THEN b.status ELSE "pending",
     booking_method |-> IF b.booking_method # NoVal THEN b.booking_method ELSE "voice"]

NewAppointment(appts, b, d) ==
    [id |-> Len(appts) + 1,
     patient_id |-> b.patientId,
     doctor_id |-> d.id,
     appointment_date |-> b.date,
     appointment_time |-> TimeColumn(b.time),
     status |-> "pending",
     booking_method |-> "voice"]

\* The message of the store's unique_violation error (SQLSTATE 23505)
DuplicateKey == "duplicate key value violates unique constraint"

\* What the store answers to the insert: the inserted row, or an error.
InsertAppointment(appts, row, failed) ==
    IF failed THEN [error |-> "store error", data |-> NoAppointment]
    ELSE IF UniqueViolation(appts, row)
    THEN [error |-> DuplicateKey, data |-> NoAppointment]
    ELSE [error |-> NoVal, data |-> row]

\* The insert and `if (insertError)` (lines 204-238); conflictError is not
\* read after the conflict check.
Book_Insert(r, failed) ==
    /\ book[r].pc = "checked"
    /\ LET row == NewAppointment(appointments, book[r].body, book[r].selectedDoctor)
           res == InsertAppointment(appointments, row, failed)
       IN  IF res.error # NoVal
           THEN /\ book' = [book EXCEPT ![r].pc = "done", ![r].conflictError = FALSE,
                               ![r].response = Response(500, "Failed to create appointment",
                                                        res.error, <<>>, NoAppointment)]
                /\ UNCHANGED appointments
           ELSE /\ appointments' = Append(appointments, res.data)
                /\ book' = [book EXCEPT ![r].pc = "inserted", ![r].conflictError = FALSE,
                               ![r].appointment = res.data]
    /\ UNCHANGED <<notifications, doctor_availability, avail, voice, doctorRes, auth, patients, create>>

\* A notification row addressed to the patient of the appointment
Notification_ToPatient(selectedDoctor, appointment) ==
    [user_id |-> appointment.patient_id, type |-> "new_appointment", related_id |-> appointment.id]

\* {user_id: selectedDoctor.user_id, type: 'new_appointment', ..., related_id: appointment.id}
Notification(selectedDoctor, appointment) ==
    [user_id |-> selectedDoctor.user_id, type |-> "new_appointment", related_id |-> appointment.id]

\* The notification insert, whose result is not read, and the reply (lines
\* 240-280); when the awaited call throws, the outer catch (lines 282-289).
Book_Notify(r, outcome) ==
    /\ book[r].pc = "inserted"
    /\ LET a == book[r].appointment
       IN  /\ notifications' =
                 IF outcome = "ok"
                 THEN Append(notifications, Notification(book[r].selectedDoctor, a))
                 ELSE notifications
           /\ IF outcome = "throws"
              THEN Done(r, Response(500, "Booking failed", NoVal, <<>>, NoAppointment))
              ELSE Done(r, Response(200, NoVal, NoVal, <<>>, a))
    /\ UNCHANGED <<appointments, doctor_availability, avail, voice, doctorRes, auth, patients, create>>

(***************************************************************************)
(* PATCH on appointments (handlePatch)                                     *)
(***************************************************************************)
\* .from('doctors').select('id').eq('user_id', user.id).single()
DoctorOf(user) ==
    IF \E d \in DoctorsTable : d.user_id = user
    THEN CHOOSE d \in DoctorsTable : d.user_id = user
    ELSE NoDoctor

\* res.status(code).json({error}) of the doctor's endpoints
DoctorReply(code, error) == [code |-> code, error |-> error]

NoDoctorReply == DoctorReply(0, NoVal)

\* The update without .eq('doctor_id', doctor.id)
UpdateStatus_AnyDoctor(appts, id, doctorId, status) ==
    LET hit == {i \in 1..Len(appts) : appts[i].id = id}
    IN  IF hit = {} THEN [error |-> TRUE, rows |-> appts]
        ELSE LET i == CHOOSE j \in hit : TRUE
                 row == [appts[i] EXCEPT !.status = status]
             IN  IF UniqueViolation(appts, row) THEN [error |-> TRUE, rows |-> appts]
                 ELSE [error |-> FALSE, rows |-> [appts EXCEPT ![i] = row]]

\* .update({ status }).eq('id', id).eq('doctor_id', doctor.id).select().single():
\* the rows after the update; an error when no row matches (single() finds
\* none) or when the store refuses the update, the rows then unchanged.
UpdateStatus(appts, id, doctorId, status) ==
    LET hit == {i \in 1..Len(appts) : appts[i].id = id /\ appts[i].doctor_id = doctorId}
    IN  IF hit = {} THEN [error |-> TRUE, rows |-> appts]
        ELSE LET i == CHOOSE j \in hit : TRUE
                 row == [appts[i] EXCEPT !.status = status]
             IN  IF UniqueViolation(appts, row) THEN [error |-> TRUE, rows |-> appts]
                 ELSE [error |-> FALSE, rows |-> [appts EXCEPT ![i] = row]]

\* PATCH by the signed-in user with body {id, status} (id 0: none);
\* `failed`: the update fails in the store.
handlePatch(user, id, status, failed) ==
    /\ LET doctor == DoctorOf(user)
           res == UpdateStatus(appointments, id, doctor.id, status)
       IN  IF id = 0 \/ status = NoVal
           THEN /\ doctorRes' = DoctorReply(400, "Missing required fields: id, status")
                /\ UNCHANGED appointments
           ELSE IF doctor = NoDoctor
           THEN /\ doctorRes' = DoctorReply(404, "Doctor profile not found")
                /\ UNCHANGED appointments
           ELSE IF failed \/ res.error
           THEN /\ doctorRes' = DoctorReply(500, "Failed to update appointment")
                /\ UNCHANGED appointments
           ELSE /\ doctorRes' = DoctorReply(200, NoVal)
                /\ appointments' = res.rows
    /\ UNCHANGED <<notifications, doctor_availability, book, avail, voice, auth, patients, create>>

(***************************************************************************)
(* GET /api/patient/check-availability                                     *)
(***************************************************************************)
Dates == {"2025-12-01", "2025-12-02"}

\* new Date(date).toLocaleDateString('en-US', { weekday: 'long' })
DayOfWeek(date) ==
    CASE date = "2025-12-01" -> "Monday"
      [] date = "2025-12-02" -> "Tuesday"
      [] OTHER -> "Invalid Date"

\* Length of the prefix /^Dr\.?\s+/i of name (0 when there is none)
DrPrefixLen(name) ==
    IF Len(name) >= 2 /\ ToLower(name[1]) = "d" /\ ToLower(name[2]) = "r"
    THEN LET dot == IF Len(name) >= 3 /\ name[3] = "." THEN 3 ELSE 2
             spaces == {k \in 1..(Len(name) - dot) :
                           \A j \in 1..k : name[dot + j] = " "}
         IN  IF spaces = {} THEN 0
             ELSE dot + (CHOOSE k \in spaces : \A l \in spaces : l <= k)
    ELSE 0

RECURSIVE TrimStart(_)
TrimStart(s) == IF s # <<>> /\ Head(s) = " " THEN TrimStart(Tail(s)) ELSE s

RECURSIVE TrimEnd(_)
TrimEnd(s) == IF s # <<>> /\ s[Len(s)] = " " THEN TrimEnd(SubSeq(s, 1, Len(s) - 1)) ELSE s

\* doctorName.replace(/^Dr\.?\s+/i, '').trim()
CleanName(doctorName) ==
    TrimEnd(TrimStart(SubSeq(doctorName, DrPrefixLen(doctorName) + 1, Len(doctorName))))

\* .from('doctors').ilike('user.full_name', `%${cleanName}%`).limit(1)
DoctorsNamed(doctorName) ==
    {d \in DoctorsTable : ILike(d.full_name, CleanName(doctorName))}

\* s.split(':'): the fields of s between colons
RECURSIVE Split(_)
Split(s) ==
    IF ~Includes(s, ":") THEN <<s>>
    ELSE LET i == CHOOSE k \in 1..Len(s) : s[k] = ":" /\ \A j \in 1..(k - 1) : s[j] # ":"
         IN  <<SubSeq(s, 1, i - 1)>> \o Split(SubSeq(s, i + 1, Len(s)))

\* Number(field) of a field of decimal digits
RECURSIVE Number(_)
Number(f) ==
    IF f = <<>> THEN 0
    ELSE 10 * Number(SubSeq(f, 1, Len(f) - 1)) + DigitVal(f[Len(f)])

\* const [hour, minute] = t.split(':').map(Number), then setHours(hour, minute, 0, 0):
\* minutes after midnight of the date
SetHours(t) == Number(Split(t)[1]) * 60 + Number(Split(t)[2])

durationMinutes == 30

\* while (current < end) { slots.push({time, available: true}); current += 30 min }
RECURSIVE GenerateSlots(_, _)
GenerateSlots(current, end) ==
    IF current < end
    THEN <<[time |-> TimeString(current), available |-> TRUE]>>
             \o GenerateSlots(current + durationMinutes, end)
    ELSE <<>>

\* The schedule query without .eq('is_active', true)
ScheduleRows_AnyRow(rows, d, day) ==
    {row \in rows : row.doctor_id = d /\ row.day_of_week = day}

\* .from('doctor_availability').eq('doctor_id', d).eq('day_of_week', day)
\*  .eq('is_active', true).single()
ScheduleRows(rows, d, day) ==
    {row \in rows : row.doctor_id = d /\ row.day_of_week = day /\ row.is_active}

\* The appointments query without the status filter
BusyAppointments_AnyStatus(appts, d, date) ==
    {a \in SeqToSet(appts) : a.doctor_id = d /\ a.appointment_date = date}

\* .from('appointments').select('appointment_time').eq('doctor_id', d)
\*  .eq('appointment_date', date).in('status', ['pending', 'confirmed'])
BusyAppointments(appts, d, date) ==
    {a \in SeqToSet(appts) :
        a.doctor_id = d /\ a.appointment_date = date /\ a.status \in ActiveStatuses}

\* The stored time compared as it is, seconds and all
NormalizeTime_Raw(time) == time

\* time.includes(':') ? time.slice(0, 5) : time
NormalizeTime(time) == IF Includes(time, ":") THEN Slice0(time, 5) ELSE time

BookedTimes(rows) == {NormalizeTime(a.appointment_time) : a \in rows}

\* Busy marks that also close the slot this request's user asked for
FinalSlots_RequestedTaken(slots, bookedTimes) ==
    [i \in 1..Len(slots) |->
        [time |-> slots[i].time,
         available |-> slots[i].time \notin bookedTimes \cup {Slice0(voice.data.time, 5)}]]

\* slots.map(slot => ({...slot, available: !bookedTimes.has(slot.time)}))
FinalSlots(slots, bookedTimes) ==
    [i \in 1..Len(slots) |-> [time |-> slots[i].time, available |-> slots[i].time \notin bookedTimes]]

NoSchedule == [doctor_id |-> NoVal, day_of_week |-> NoVal, start_time |-> <<>>, end_time |-> <<>>,
               is_active |-> FALSE]

AvailReply(code, available, reason, message, slots) ==
    [code |-> code, available |-> available, reason |-> reason, message |-> message, slots |-> slots]

IdleAvail ==
    [pc |-> "idle", doctorName |-> <<>>, date |-> NoVal, targetDoctorId |-> NoVal,
     slots |-> <<>>, queried |-> {}, response |-> AvailReply(0, FALSE, NoVal, NoVal, <<>>)]

AvailDone(queried, reply) ==
    avail' = [avail EXCEPT !.pc = "done", !.queried = queried, !.response = reply]

\* The request arrives and the doctor is looked up by name (lines 9-46);
\* `failed`: the search query fails, which is logged and leaves doctors null.
CheckAvailability_FindDoctor(doctorName, date, failed) ==
    /\ avail.pc = "idle"
    /\ voice.awaiting
    /\ LET doctors == IF failed THEN {} ELSE DoctorsNamed(doctorName)
           arrived == [IdleAvail EXCEPT !.doctorName = doctorName, !.date = date,
                                        !.queried = {"doctors"}]
       IN  IF doctors = {}
           THEN avail' = [arrived EXCEPT !.pc = "done",
                              !.response = AvailReply(200, FALSE, NoVal, "Could not find a doctor named", <<>>)]
           ELSE \E d \in doctors :
                   avail' = [arrived EXCEPT !.pc = "found", !.targetDoctorId = d.id]
    /\ UNCHANGED <<appointments, notifications, doctor_availability, book, voice, doctorRes, auth, patients, create>>

\* The schedule query, the day_inactive reply and the slot loop (lines 75-128);
\* `failed`: the query fails with an error other than "no rows found".
CheckAvailability_Schedule(failed) ==
    /\ avail.pc = "found"
    /\ LET dayOfWeek == DayOfWeek(avail.date)
           found == ScheduleRows(doctor_availability, avail.targetDoctorId, dayOfWeek)
           queried == avail.queried \cup {"doctor_availability"}
       IN  IF failed
           THEN AvailDone(queried, AvailReply(500, FALSE, NoVal, "Failed to check availability", <<>>))
           ELSE IF found = {}
           THEN AvailDone(queried, AvailReply(200, FALSE, "day_inactive", "Doctor is not available on", <<>>))
           ELSE \E schedule \in found :
                   avail' = [avail EXCEPT !.pc = "slots", !.queried = queried,
                                !.slots = GenerateSlots(SetHours(schedule.start_time),
                                                        SetHours(schedule.end_time))]
    /\ UNCHANGED <<appointments, notifications, doctor_availability, book, voice, doctorRes, auth, patients, create>>

\* The appointments query, the busy marks and the reply (lines 130-177).
CheckAvailability_Appointments(failed) ==
    /\ avail.pc = "slots"
    /\ LET rows == BusyAppointments(appointments, avail.targetDoctorId, avail.date)
           queried == avail.queried \cup {"appointments"}
       IN  IF failed
           THEN AvailDone(queried, AvailReply(500, FALSE, NoVal, "Failed to check availability", <<>>))
           ELSE AvailDone(queried, AvailReply(200, TRUE, NoVal, NoVal,
                                              FinalSlots(avail.slots, BookedTimes(rows))))
    /\ UNCHANGED <<appointments, notifications, doctor_availability, book, voice, doctorRes, auth, patients, create>>

(***************************************************************************)
(* The conversational client: handleTimeResponse and checkAvailability     *)
(***************************************************************************)
IdleVoice ==
    [conversationStage |-> "idle",
     data |-> [doctor |-> <<>>, date |-> NoVal, time |-> <<>>,
               availableSlots |-> <<>>, suggestedSlots |-> <<>>],
     awaiting |-> FALSE,
     booking |-> FALSE,
     patientId |-> NoVal,
     isRecording |-> FALSE]

\* The times the interpreter may hand back for the user's utterance
RequestedTimes ==
    { TimeString(570), TimeString(570) \o <<":", "0", "0">>, TimeString(480) }

\* requestedTime.length === 5 ? requestedTime : requestedTime.slice(0, 5)
NormalizeRequested(requestedTime) ==
    IF Len(requestedTime) = 5 THEN requestedTime ELSE Slice0(requestedTime, 5)

\* normalizedRequestedTime && slots.some(s => s.time === normalizedRequestedTime && s.available)
IsTimeAvailable(slots, requestedTime) ==
    /\ NormalizeRequested(requestedTime) # <<>>
    /\ \E i \in 1..Len(slots) :
          slots[i].time = NormalizeRequested(requestedTime) /\ slots[i].available

\* slots.filter(s => s.available)
RECURSIVE FilterAvailable(_)
FilterAvailable(slots) ==
    IF slots = <<>> THEN <<>>
    ELSE (IF Head(slots).available THEN <<Head(slots)>> ELSE <<>>) \o FilterAvailable(Tail(slots))

\* slots.filter(s => s.available).slice(0, 3)
SuggestedSlots(slots) == Slice0(FilterAvailable(slots), 3)

\* The interpreter returned the time t: it is stored and a new availability
\* request is sent (lines 911-916, 927-929); in offering_slots this is the
\* user naming another time (lines 827-830).
handleTimeResponse(t) ==
    /\ voice.conversationStage \in {"asking_time", "offering_slots"}
    /\ voice.isRecording
    /\ ~voice.awaiting
    /\ avail.pc \in {"idle", "done"}
    /\ voice' = [voice EXCEPT !.data.time = t, !.awaiting = TRUE, !.isRecording = FALSE]
    /\ avail' = IdleAvail
    /\ UNCHANGED <<appointments, notifications, doctor_availability, book, doctorRes, auth, patients, create>>

\* The reply has arrived: lines 931-992.  A reply other than 2xx makes the
\* request throw, and the catch asks the user to try again.
checkAvailability ==
    /\ voice.awaiting
    /\ avail.pc = "done"
    /\ LET res == avail.response
           requestedTime == voice.data.time
       IN  voice' =
             IF res.code # 200
             THEN [voice EXCEPT !.awaiting = FALSE, !.isRecording = TRUE]
             ELSE IF ~res.available /\ Len(res.slots) = 0
             THEN [voice EXCEPT !.conversationStage = "asking_doctor",
                                !.awaiting = FALSE, !.isRecording = TRUE]
             ELSE IF IsTimeAvailable(res.slots, requestedTime)
             THEN [voice EXCEPT !.conversationStage = "confirming",
                                !.awaiting = FALSE, !.isRecording = TRUE]
             ELSE IF Len(SuggestedSlots(res.slots)) > 0
             THEN [voice EXCEPT !.conversationStage = "offering_slots",
                                !.data.availableSlots = res.slots,
                                !.data.suggestedSlots = SuggestedSlots(res.slots),
                                !.awaiting = FALSE, !.isRecording = TRUE]
             ELSE [voice EXCEPT !.conversationStage = "asking_date",
                                !.awaiting = FALSE, !.isRecording = TRUE]
    /\ UNCHANGED <<appointments, notifications, doctor_availability, book, avail, doctorRes, auth, patients, create>>

\* The stages in which the assistant waits for the user to speak
ActiveStages == {"asking_doctor", "asking_date", "asking_time", "offering_slots", "confirming"}

\* An utterance can be processed: the recorder is running (stopRecording and
\* onstop, lines 738-757) and no request of the assistant is in flight.
Listening ==
    voice.isRecording /\ ~voice.awaiting /\ ~voice.booking

\* resetConversation (lines 1041-1052): the conversation data is cleared
ResetData == IdleVoice.data

\* useEffect on userProfile (lines 666-671): the patient id has arrived
setPatientId ==
    /\ voice.patientId = NoVal
    /\ voice' = [voice EXCEPT !.patientId = "p1"]
    /\ UNCHANGED <<appointments, notifications, doctor_availability, book, avail, doctorRes, auth, patients, create>>

\* startConversation (lines 709-724)
startConversation ==
    /\ voice.conversationStage = "idle"
    /\ voice' = [voice EXCEPT !.conversationStage = "asking_doctor", !.data = ResetData,
                              !.isRecording = TRUE]
    /\ UNCHANGED <<appointments, notifications, doctor_availability, book, avail, doctorRes, auth, patients, create>>

\* processAudio when the transcription fails (lines 782-788), and
\* handleUserResponse when the interpretation throws or returns no doctor,
\* date or time (lines 849-855, 871-883, 898-903, 917-922): the assistant
\* asks again and startRecording runs.
processAudio_Repeat ==
    /\ voice.conversationStage \in ActiveStages
    /\ Listening
    /\ voice' = [voice EXCEPT !.isRecording = TRUE]
    /\ UNCHANGED <<appointments, notifications, doctor_availability, book, avail, doctorRes, auth, patients, create>>

\* handleDoctorResponse with the doctor the interpreter returned (lines 864-870)
handleDoctorResponse(doctor) ==
    /\ voice.conversationStage = "asking_doctor"
    /\ Listening
    /\ voice' = [voice EXCEPT !.data.doctor = doctor, !.conversationStage = "asking_date",
                              !.isRecording = TRUE]
    /\ UNCHANGED <<appointments, notifications, doctor_availability, book, avail, doctorRes, auth, patients, create>>

\* handleDateResponse with the date the interpreter returned (lines 891-897)
handleDateResponse(date) ==
    /\ voice.conversationStage = "asking_date"
    /\ Listening
    /\ voice' = [voice EXCEPT !.data.date = date, !.conversationStage = "asking_time",
                              !.isRecording = TRUE]
    /\ UNCHANGED <<appointments, notifications, doctor_availability, book, avail, doctorRes, auth, patients, create>>

\* offering_slots, isNegation (lines 820-826)
offeringSlots_Negation ==
    /\ voice.conversationStage = "offering_slots"
    /\ Listening
    /\ voice' = [voice EXCEPT !.conversationStage = "asking_time", !.isRecording = TRUE]
    /\ UNCHANGED <<appointments, notifications, doctor_availability, book, avail, doctorRes, auth, patients, create>>

\* confirming, no confirmation (lines 836-843)
confirming_StartOver ==
    /\ voice.conversationStage = "confirming"
    /\ Listening
    /\ voice' = [voice EXCEPT !.conversationStage = "asking_doctor", !.data = ResetData,
                              !.isRecording = TRUE]
    /\ UNCHANGED <<appointments, notifications, doctor_availability, book, avail, doctorRes, auth, patients, create>>

\* const payload = {doctor, date, time, patientId} (lines 1011-1016)
Payload ==
    [doctor |-> voice.data.doctor, speciality |-> <<>>, date |-> voice.data.date,
     time |-> voice.data.time, patientId |-> voice.patientId,
     status |-> NoVal, booking_method |-> NoVal]

\* confirmBooking after a confirmation in offering_slots or confirming (lines
\* 816-819, 833-835, 995-1018): data is missing and the conversation starts
\* over, or the booking request r is sent.
confirmBooking(r) ==
    /\ voice.conversationStage \in {"offering_slots", "confirming"}
    /\ Listening
    /\ IF \/ voice.data.doctor = <<>> \/ voice.data.date = NoVal
          \/ voice.data.time = <<>> \/ voice.patientId = NoVal
       THEN /\ voice' = [voice EXCEPT !.conversationStage = "asking_doctor",
                                      !.data = ResetData, !.isRecording = TRUE]
            /\ UNCHANGED book
       ELSE /\ voice' = [voice EXCEPT !.booking = TRUE, !.isRecording = FALSE]
            /\ book' = [book EXCEPT ![r] = IdleBook]
    /\ UNCHANGED <<appointments, notifications, doctor_availability, avail, doctorRes, auth, patients, create>>

\* The reply to the booking request r (lines 1020-1038): 200 completes the
\* conversation; any other reply makes the request throw, and the catch
\* speaks the error and starts no recording.
confirmBooking_Reply(r) ==
    /\ voice.booking
    /\ book[r].pc = "done"
    /\ voice' = IF book[r].response.code = 200
                THEN [voice EXCEPT !.conversationStage = "completed", !.booking = FALSE]
                ELSE [voice EXCEPT !.booking = FALSE]
    /\ UNCHANGED <<appointments, notifications, doctor_availability, book, avail, doctorRes, auth, patients, create>>

\* closeModal (lines 1054-1060)
closeModal ==
    /\ voice.conversationStage # "idle"
    /\ ~voice.awaiting /\ ~voice.booking
    /\ voice' = [IdleVoice EXCEPT !.patientId = voice.patientId]
    /\ UNCHANGED <<appointments, notifications, doctor_availability, book, avail, doctorRes, auth, patients, create>>

(***************************************************************************)
(* AuthProvider and withAuth                                               *)
(***************************************************************************)
\* public.users.role of the users
RoleOf(user) == IF user \in {"u1", "u2"} THEN "doctor" ELSE "patient"

\* useState(null), useState(null), useState(true) (AuthContext.js lines
\* 19-22); checkUser and the auth listener have not run yet.
IdleAuth ==
    [user |-> NoVal, userProfile |-> NoVal, loading |-> TRUE,
     checkUser |-> "start", listener |-> "idle", fetchFor |-> NoVal, events |-> 0]

\* checkUser up to the profile fetch (lines 59-83); `session`: the user of
\* the stored session or null; `failed`: getSession returns an error or throws.
checkUser_GetSession(session, failed) ==
    /\ auth.checkUser = "start"
    /\ auth' = IF failed \/ session = NoVal
               THEN [auth EXCEPT !.user = NoVal, !.userProfile = NoVal, !.loading = FALSE,
                                 !.checkUser = "done"]
               ELSE [auth EXCEPT !.user = session, !.checkUser = session]
    /\ UNCHANGED <<appointments, notifications, doctor_availability, book, avail, voice,
                   doctorRes, patients, create>>

\* fetchUserProfile for checkUser, and its finally (lines 78, 89-92, 96-164);
\* `failed`: the users query fails and the minimal profile is set.
checkUser_Profile(failed) ==
    /\ auth.checkUser \in Users
    /\ auth' = [auth EXCEPT !.userProfile = IF failed THEN "patient" ELSE RoleOf(auth.checkUser),
                            !.loading = FALSE, !.checkUser = "done"]
    /\ UNCHANGED <<appointments, notifications, doctor_availability, book, avail, voice,
                   doctorRes, patients, create>>

\* The failsafe timer fires before checkUser has finished (lines 27-35)
authTimeout ==
    /\ auth.checkUser # "done"
    /\ auth.loading
    /\ auth' = [auth EXCEPT !.loading = FALSE]
    /\ UNCHANGED <<appointments, notifications, doctor_availability, book, avail, voice,
                   doctorRes, patients, create>>

\* The auth listener is called with the user of the new session or with
\* null (lines 38-49): up to the profile fetch, or to the end.
onAuthStateChange(session) ==
    /\ auth.listener = "idle"
    /\ auth' = IF session # NoVal
               THEN [auth EXCEPT !.user = session, !.listener = "fetching", !.fetchFor = session,
                                 !.events = @ + 1]
               ELSE [auth EXCEPT !.user = NoVal, !.userProfile = NoVal, !.loading = FALSE,
                                 !.events = @ + 1]
    /\ UNCHANGED <<appointments, notifications, doctor_availability, book, avail, voice,
                   doctorRes, patients, create>>

\* fetchUserProfile for the listener has returned (lines 44, 49, 96-164)
onAuthStateChange_Profile(failed) ==
    /\ auth.listener = "fetching"
    /\ auth' = [auth EXCEPT !.userProfile = IF failed THEN "patient" ELSE RoleOf(auth.fetchFor),
                            !.loading = FALSE, !.listener = "idle", !.fetchFor = NoVal]
    /\ UNCHANGED <<appointments, notifications, doctor_availability, book, avail, voice,
                   doctorRes, patients, create>>

\* signOut clears the local state at once (lines 218-226)
signOut ==
    /\ auth.user # NoVal
    /\ auth' = [auth EXCEPT !.user = NoVal, !.userProfile = NoVal]
    /\ UNCHANGED <<appointments, notifications, doctor_availability, book, avail, voice,
                   doctorRes, patients, create>>

\* withAuth(Component, allowedRoles): ProtectedRoute returns <Component/>
\* (part_008 lines 340-372)
RendersComponent(allowedRoles) ==
    /\ ~auth.loading
    /\ auth.user # NoVal
    /\ ~(allowedRoles # {} /\ auth.userProfile # NoVal /\ auth.userProfile \notin allowedRoles)

(***************************************************************************)
(* Lazy creation of the patient profile of one user                        *)
(***************************************************************************)
\* The patients table: each patient record belongs to one user identity.
PatientsTable ==
    { [id |-> "p1", user_id |-> "u3"], [id |-> "p2", user_id |-> "u1"] }

PatientIds == {"p1", "p2", "p3", "p4", "p5"}

Creators == {"c1", "c2", "c3"}

IdleCreate == [pc |-> "idle", ok |-> FALSE, patientId |-> NoVal, via |-> NoVal]

\* The id the store gives to a new row
NewPatientId(rows) == CHOOSE id \in PatientIds : \A p \in rows : p.id # id

\* .from('patients').select('id').eq('user_id', user).single()
PatientOf(rows, user) == {p \in rows : p.user_id = user}

\* A patients table that accepts a second row of the same user
PatientExists_Unenforced(rows, user) == FALSE

\* The unique index on patients.user_id, which ON CONFLICT (user_id) of the
\* signup trigger names: an insert for a user who has a row is refused.
PatientExists(rows, user) == PatientOf(rows, user) # {}

Created(c, id, via) ==
    create' = [create EXCEPT ![c] = [pc |-> "done", ok |-> TRUE, patientId |-> id, via |-> via]]

Failed(c) ==
    create' = [create EXCEPT ![c] = [pc |-> "done", ok |-> FALSE, patientId |-> NoVal, via |-> NoVal]]

\* A select of the caller's patient row, by checkPatientId (part_005 lines
\* 409-431), by processAudio (531-536) or by the handler of
\* fix-patient-profile (34-47); `failed`: the query fails and data is null.
Create_Select(c, user, kind, failed) ==
    /\ \/ create[c].pc = "idle"
       \/ create[c].pc = "fix" /\ kind = "fix"
    /\ LET found == IF failed THEN {} ELSE PatientOf(patients, user)
       IN  IF found # {}
           THEN \E p \in found :
                   Created(c, p.id, IF create[c].pc = "fix" THEN "fallback" ELSE "select")
           ELSE create' = [create EXCEPT ![c].pc = kind \o "Insert"]
    /\ UNCHANGED <<appointments, notifications, doctor_availability, book, avail, voice,
                   doctorRes, auth, patients>>

\* The insert of {user_id}: by createPatientProfile (part_005 447-469), whose
\* failure leads to POST /api/fix-patient-profile; by processAudio (539-546),
\* which reads newPatient.id of a null result; by the handler (49-65), which
\* answers 500.
Create_Insert(c, user, failed) ==
    /\ create[c].pc \in {"clientInsert", "lazyInsert", "fixInsert"}
    /\ IF failed \/ PatientExists(patients, user)
       THEN /\ IF create[c].pc = "clientInsert"
               THEN create' = [create EXCEPT ![c].pc = "fix"]
               ELSE Failed(c)
            /\ UNCHANGED patients
       ELSE /\ patients' = patients \cup {[id |-> NewPatientId(patients), user_id |-> user]}
            /\ Created(c, NewPatientId(patients), "insert")
    /\ UNCHANGED <<appointments, notifications, doctor_availability, book, avail, voice,
                   doctorRes, auth>>

Init ==
    /\ appointments = <<>>
    /\ notifications = <<>>
    /\ doctor_availability = {}
    /\ book = [r \in Reqs |-> IdleBook]
    /\ avail = IdleAvail
    /\ voice = IdleVoice
    /\ doctorRes = NoDoctorReply
    /\ auth = IdleAuth
    /\ patients = PatientsTable
    /\ create = [c \in Creators |-> IdleCreate]

Next ==
    \/ \E r \in Reqs, b \in Bodies, m \in LookupOutcomes : Book_Lookup(r, b, m)
    \/ \E r \in Reqs, failed \in BOOLEAN : Book_ConflictCheck(r, failed)
    \/ \E r \in Reqs, failed \in BOOLEAN : Book_Insert(r, failed)
    \/ \E r \in Reqs, outcome \in {"ok", "error", "throws"} : Book_Notify(r, outcome)
    \/ \E u \in Users, id \in 1..Cardinality(Reqs), s \in Statuses : handlePatch(u, id, s, FALSE)

Spec == Init /\ [][Next]_vars

(***************************************************************************)
(* The availability check on its own: the store holds a schedule and some  *)
(* appointments, the client has the doctor and the date and asks for a     *)
(* time.                                                                   *)
(***************************************************************************)
MaxWindowQuarters == 10

MaxSeedAppointments == 2

AvailabilityRow(d, day, start, end, active) ==
    [doctor_id |-> d, day_of_week |-> day,
     start_time |-> TimeColumn(TimeString(start)), end_time |-> TimeColumn(TimeString(end)),
     is_active |-> active]

\* Monday 09:00-17:00, the sample schedule of every doctor
SampleRow(d) == AvailabilityRow(d, "Monday", 540, 1020, TRUE)

\* d1's Monday: no row, or a row opening at 09:00 or 09:15 and closing a
\* number of quarter hours later (or one quarter hour earlier)
AvailabilitySeeds ==
    { {SampleRow("d2")} }
    \cup
    { {SampleRow("d2"), AvailabilityRow("d1", "Monday", start, start + 15 * q, active)} :
         start \in {540, 555}, q \in (-1)..MaxWindowQuarters, active \in BOOLEAN }

SeedRow(d, date, time, status) ==
    [id |-> 0, patient_id |-> "p1", doctor_id |-> d, appointment_date |-> date,
     appointment_time |-> time, status |-> status, booking_method |-> "voice"]

SeedRows ==
    { SeedRow("d1", "2025-12-01", TimeColumn(TimeString(570)), st) : st \in Statuses }
    \cup
    { SeedRow("d1", "2025-12-01", TimeColumn(TimeString(600)), "confirmed"),
      SeedRow("d1", "2025-12-01", TimeColumn(TimeString(540)), "pending"),
      SeedRow("d2", "2025-12-01", TimeColumn(TimeString(570)), "pending"),
      SeedRow("d1", "2025-12-02", TimeColumn(TimeString(570)), "confirmed") }

\* The HH:MM of a stored time, HH:MM or HH:MM:SS
HourMinute(t) == SubSeq(t, 1, 5)

\* The rows of a set, numbered in some fixed order
RECURSIVE Numbered(_, _)
Numbered(rows, n) ==
    IF rows = {} THEN <<>>
    ELSE LET row == CHOOSE x \in rows : TRUE
         IN  <<[row EXCEPT !.id = n]>> \o Numbered(rows \ {row}, n + 1)

SlotFree(rows) ==
    \A a, b \in rows :
        (/\ a # b
         /\ a.status \in ActiveStatuses /\ b.status \in ActiveStatuses
         /\ a.doctor_id = b.doctor_id /\ a.appointment_date = b.appointment_date)
        => HourMinute(a.appointment_time) # HourMinute(b.appointment_time)

AppointmentSeeds ==
    { Numbered(rows, 1) :
        rows \in {x \in SUBSET SeedRows : Cardinality(x) <= MaxSeedAppointments /\ SlotFree(x)} }

DrSmith == <<"D", "r", ".", " ", "S", "m", "i", "t", "h">>

Jones == <<"J", "o", "n", "e", "s">>

InitAvail ==
    /\ appointments \in AppointmentSeeds
    /\ notifications = <<>>
    /\ doctor_availability \in AvailabilitySeeds
    /\ book = [r \in Reqs |-> IdleBook]
    /\ avail = IdleAvail
    /\ doctorRes = NoDoctorReply
    /\ auth = IdleAuth
    /\ patients = PatientsTable
    /\ create = [c \in Creators |-> IdleCreate]
    /\ \E doctor \in {DrSmith, Jones}, date \in Dates :
          voice = [IdleVoice EXCEPT !.conversationStage = "asking_time",
                                    !.data.doctor = doctor, !.data.date = date,
                                    !.isRecording = TRUE]

NextAvail ==
    \/ \E t \in RequestedTimes : handleTimeResponse(t)
    \/ \E failed \in BOOLEAN :
          CheckAvailability_FindDoctor(voice.data.doctor, voice.data.date, failed)
    \/ \E failed \in BOOLEAN : CheckAvailability_Schedule(failed)
    \/ \E failed \in BOOLEAN : CheckAvailability_Appointments(failed)
    \/ checkAvailability

SpecAvail == InitAvail /\ [][NextAvail]_vars

(***************************************************************************)
(* POST /api/doctor/availability: the doctor's weekly schedule             *)
(***************************************************************************)
MaxScheduleLen == 2

\* The entries a schedule may carry: a proper window, active or not, a
\* window that ends before it starts, and an empty window.
ScheduleSlot(day, start, end, active) ==
    [day_of_week |-> day, start_time |-> TimeString(start), end_time |-> TimeString(end),
     is_active |-> active]

ScheduleSlots ==
    { ScheduleSlot("Monday", 540, 600, TRUE),
      ScheduleSlot("Monday", 540, 600, FALSE),
      ScheduleSlot("Tuesday", 540, 600, TRUE),
      ScheduleSlot("Monday", 600, 540, TRUE),
      ScheduleSlot("Tuesday", 540, 540, TRUE) }

\* req.body: {schedule: [...]}, or a body whose schedule is no array
ScheduleBodies ==
    { [isArray |-> TRUE, schedule |-> sch] :
        sch \in UNION { [1..n -> ScheduleSlots] : n \in 0..MaxScheduleLen } }
    \cup { [isArray |-> FALSE, schedule |-> <<>>] }

\* schedule.map(slot => ({doctor_id: doctor.id, ...})), as the time columns
\* store them
Updates(doctorId, schedule) ==
    [i \in 1..Len(schedule) |->
        AvailabilityRow(doctorId, schedule[i].day_of_week, SetHours(schedule[i].start_time),
                        SetHours(schedule[i].end_time), schedule[i].is_active)]

\* An insert of the rows that ignores the rows already there
Upsert_Insert(rows, updates) ==
    [error |-> FALSE, rows |-> rows \cup SeqToSet(updates)]

\* .upsert(updates, { onConflict: 'doctor_id, day_of_week' }) under the
\* constraint unique_doctor_day: a row of the same doctor and day is
\* replaced; the store refuses a statement that names one such row twice.
Upsert(rows, updates) ==
    IF \E i, j \in 1..Len(updates) :
          /\ i # j
          /\ updates[i].doctor_id = updates[j].doctor_id
          /\ updates[i].day_of_week = updates[j].day_of_week
    THEN [error |-> TRUE, rows |-> rows]
    ELSE [error |-> FALSE,
          rows |-> { row \in rows :
                       ~\E i \in 1..Len(updates) :
                           /\ updates[i].doctor_id = row.doctor_id
                           /\ updates[i].day_of_week = row.day_of_week }
                   \cup SeqToSet(updates)]

\* POST by the signed-in user; `failed`: the upsert fails in the store.
Availability_Post(user, body, failed) ==
    /\ LET doctor == DoctorOf(user)
           res == Upsert(doctor_availability, Updates(doctor.id, body.schedule))
       IN  IF doctor = NoDoctor
           THEN /\ doctorRes' = DoctorReply(404, "Doctor profile not found")
                /\ UNCHANGED doctor_availability
           ELSE IF ~body.isArray
           THEN /\ doctorRes' = DoctorReply(400, "Invalid schedule format")
                /\ UNCHANGED doctor_availability
           ELSE IF failed \/ res.error
           THEN /\ doctorRes' = DoctorReply(500, "Failed to update availability")
                /\ UNCHANGED doctor_availability
           ELSE /\ doctorRes' = DoctorReply(200, NoVal)
                /\ doctor_availability' = res.rows
    /\ UNCHANGED <<appointments, notifications, book, avail, voice, auth, patients, create>>

\* Every doctor starts with the sample schedule.
InitSchedule ==
    /\ appointments = <<>>
    /\ notifications = <<>>
    /\ doctor_availability = {SampleRow(d) : d \in DoctorIds}
    /\ book = [r \in Reqs |-> IdleBook]
    /\ avail = IdleAvail
    /\ voice = IdleVoice
    /\ doctorRes = NoDoctorReply
    /\ auth = IdleAuth
    /\ patients = PatientsTable
    /\ create = [c \in Creators |-> IdleCreate]

NextSchedule ==
    \E u \in Users, body \in ScheduleBodies, failed \in BOOLEAN : Availability_Post(u, body, failed)

SpecSchedule == InitSchedule /\ [][NextSchedule]_vars

(***************************************************************************)
(* Two booking requests racing for a slot against a store that answers     *)
(* every call, with no status update in between.                           *)
(***************************************************************************)
NextRace ==
    \/ \E r \in Reqs, b \in Bodies, m \in MatchResults : Book_Lookup(r, b, m)
    \/ \E r \in Reqs : Book_ConflictCheck(r, FALSE)
    \/ \E r \in Reqs : Book_Insert(r, FALSE)
    \/ \E r \in Reqs, outcome \in {"ok", "error"} : Book_Notify(r, outcome)

SpecRace == Init /\ [][NextRace]_vars

(***************************************************************************)
(* The provider lookup of the booking requests alone.                      *)
(***************************************************************************)
NextResolve ==
    \E r \in Reqs, b \in Bodies, m \in LookupOutcomes : Book_Lookup(r, b, m)

SpecResolve == Init /\ [][NextResolve]_vars

(***************************************************************************)
(* Status updates alone, on appointments of both doctors.                  *)
(***************************************************************************)
\* d1 and d2 each have a pending appointment on Monday at 09:30, and d1 a
\* cancelled one at the same time.
InitPatch ==
    /\ appointments =
          Numbered({ SeedRow("d1", "2025-12-01", TimeColumn(TimeString(570)), "pending"),
                     SeedRow("d2", "2025-12-01", TimeColumn(TimeString(570)), "pending"),
                     SeedRow("d1", "2025-12-01", TimeColumn(TimeString(570)), "cancelled") }, 1)
    /\ notifications = <<>>
    /\ doctor_availability = {}
    /\ book = [r \in Reqs |-> IdleBook]
    /\ avail = IdleAvail
    /\ voice = IdleVoice
    /\ doctorRes = NoDoctorReply
    /\ auth = IdleAuth
    /\ patients = PatientsTable
    /\ create = [c \in Creators |-> IdleCreate]

\* Any user, any id (0: none; one past the last: unknown), any status.
NextPatch ==
    \E u \in Users, id \in 0..(Len(appointments) + 1), s \in Statuses \cup {NoVal},
       failed \in BOOLEAN :
        handlePatch(u, id, s, failed)

SpecPatch == InitPatch /\ [][NextPatch]_vars

(***************************************************************************)
(* Properties                                                              *)
(***************************************************************************)
\* Some pending or confirmed appointment holds (d, date, time).
SlotHeld(d, date, time) ==
    \E i \in 1..Len(appointments) :
        /\ appointments[i].doctor_id = d
        /\ appointments[i].appointment_date = date
        /\ HourMinute(appointments[i].appointment_time) = HourMinute(time)
        /\ appointments[i].status \in {"pending", "confirmed"}

C2_ExactlyOneBooked ==
    \A r1, r2 \in Reqs :
        (/\ r1 # r2
         /\ book[r1].pc = "done" /\ book[r2].pc = "done"
         /\ book[r1].selectedDoctor # NoDoctor
         /\ book[r1].selectedDoctor = book[r2].selectedDoctor
         /\ book[r1].body.date = book[r2].body.date
         /\ book[r1].body.time = book[r2].body.time)
        => \E w, l \in {r1, r2} :
              /\ w # l
              /\ book[w].response.code = 200
              /\ book[w].response.appointment.status = "pending"
              /\ book[l].response.code = 409
              /\ book[l].response.error = "Time slot not available"

\* C3: when the conflict query of a request is answered while a pending or
\* confirmed appointment holds its doctor, date and time, the request ends
\* there with 409 and the step writes neither table.
C3_ConflictRejected ==
    [][\A r \in Reqs :
          (/\ book[r].pc = "resolved"
           /\ book'[r].pc # "resolved"
           /\ ~book'[r].conflictError
           /\ SlotHeld(book[r].selectedDoctor.id, book[r].body.date, book[r].body.time))
          => /\ book'[r].pc = "done"
             /\ book'[r].response.code = 409
             /\ book'[r].response.error = "Time slot not available"
             /\ book'[r].appointment = NoAppointment
             /\ appointments' = appointments
             /\ notifications' = notifications]_vars

\* A request was turned away with 409 by an appointment the doctor has
\* confirmed.
C3_Witness ==
    \E r \in Reqs :
        /\ book[r].pc = "done"
        /\ book[r].response.code = 409
        /\ \E i \in 1..Len(appointments) :
              /\ appointments[i].status = "confirmed"
              /\ appointments[i].doctor_id = book[r].selectedDoctor.id
              /\ appointments[i].appointment_date = book[r].body.date
              /\ HourMinute(appointments[i].appointment_time) = book[r].body.time

\* C4: a request whose insert the store refused for uniqueness reports the
\* slot conflict (409), as a failed pre-check does.
C4_RejectedInsertIsConflict ==
    \A r \in Reqs :
        (book[r].pc = "done" /\ book[r].response.details.text = DuplicateKey)
        => /\ book[r].response.code = 409
           /\ book[r].response.error = "Time slot not available"

\* C5: a request that inserted its appointment and whose notification was
\* not stored still answers success, and its appointment is in the store.
C5_NotificationFailureSwallowed ==
    \A r \in Reqs :
        (/\ book[r].pc = "done"
         /\ book[r].appointment # NoAppointment
         /\ \A k \in 1..Len(notifications) :
               notifications[k].related_id # book[r].appointment.id)
        => /\ book[r].response.code = 200
           /\ \E i \in 1..Len(appointments) : appointments[i].id = book[r].appointment.id

\* The minute of the day a stored time names
MinuteOf(t) == CHOOSE m \in 0..1439 : TimeString(m) = HourMinute(t)

\* The slots the availability request has generated
Generated == IF avail.pc = "slots" THEN avail.slots ELSE avail.response.slots

\* The request has generated the slots of an open day.
SlotsGenerated ==
    \/ avail.pc = "slots"
    \/ avail.pc = "done" /\ avail.response.code = 200 /\ avail.response.available

\* C6: the generated slots are exactly start + 30k for 0 <= k <
\* floor((end - start) / 30): no partial trailing slot, none when start = end.
C6_SlotsFitWindow ==
    SlotsGenerated =>
        \E row \in doctor_availability :
            /\ row.doctor_id = avail.targetDoctorId
            /\ row.day_of_week = DayOfWeek(avail.date)
            /\ row.is_active
            /\ LET start == MinuteOf(row.start_time)
                   end == MinuteOf(row.end_time)
                   n == IF end > start THEN (end - start) \div durationMinutes ELSE 0
               IN  /\ Len(Generated) = n
                   /\ \A k \in 1..n :
                         Generated[k].time = TimeString(start + durationMinutes * (k - 1))

\* The doctor of the request has no active row for the weekday of its date.
DayClosed ==
    /\ avail.targetDoctorId # NoVal
    /\ ~\E row \in doctor_availability :
          /\ row.doctor_id = avail.targetDoctorId
          /\ row.day_of_week = DayOfWeek(avail.date)
          /\ row.is_active

\* C7: for a date whose weekday has no active availability row the request
\* generates no slots and never reads the appointments, and the reply of an
\* answered schedule query is available = false, reason day_inactive, no
\* slots.
C7_DayInactive ==
    DayClosed =>
        /\ avail.pc # "slots"
        /\ "appointments" \notin avail.queried
        /\ (avail.pc = "done" /\ avail.response.code = 200)
              => /\ ~avail.response.available
                 /\ avail.response.reason = "day_inactive"
                 /\ avail.response.slots = <<>>

\* A closed day was reported although the doctor has a pending or confirmed
\* appointment on that date.
C7_Witness ==
    /\ DayClosed
    /\ avail.pc = "done"
    /\ avail.response.reason = "day_inactive"
    /\ \E i \in 1..Len(appointments) :
          /\ appointments[i].doctor_id = avail.targetDoctorId
          /\ appointments[i].appointment_date = avail.date
          /\ appointments[i].status \in {"pending", "confirmed"}

\* C8: in the reply of an open day a slot is unavailable exactly when a
\* pending or confirmed appointment of that doctor and date has the slot's
\* HH:MM; appointments of any other status mark nothing.
C8_BusyMarks ==
    (avail.pc = "done" /\ avail.response.code = 200 /\ avail.response.available) =>
        \A k \in 1..Len(avail.response.slots) :
            ~avail.response.slots[k].available
                <=> SlotHeld(avail.targetDoctorId, avail.date, avail.response.slots[k].time)

\* A reply where a stored HH:MM:SS marks its slot while a cancelled,
\* completed or no-show appointment leaves another one open.
C8_Witness ==
    /\ avail.pc = "done" /\ avail.response.code = 200 /\ avail.response.available
    /\ \E k \in 1..Len(avail.response.slots), i \in 1..Len(appointments) :
          /\ ~avail.response.slots[k].available
          /\ Len(appointments[i].appointment_time) = 8
          /\ appointments[i].status \in {"pending", "confirmed"}
          /\ appointments[i].doctor_id = avail.targetDoctorId
          /\ appointments[i].appointment_date = avail.date
          /\ HourMinute(appointments[i].appointment_time) = avail.response.slots[k].time
    /\ \E k \in 1..Len(avail.response.slots), i \in 1..Len(appointments) :
          /\ avail.response.slots[k].available
          /\ appointments[i].status \notin {"pending", "confirmed"}
          /\ appointments[i].doctor_id = avail.targetDoctorId
          /\ appointments[i].appointment_date = avail.date
          /\ HourMinute(appointments[i].appointment_time) = avail.response.slots[k].time

\* The client has handled the reply of an open day.
ReplyHandled ==
    /\ ~voice.awaiting
    /\ avail.pc = "done" /\ avail.response.code = 200 /\ avail.response.available

\* The requested time is one of the generated slots.
RequestedIsSlot ==
    \E k \in 1..Len(avail.response.slots) :
        avail.response.slots[k].time = HourMinute(voice.data.time)

\* C9: a requested time that matches no generated slot of an open day is
\* classified time_out_of_bounds, and the client does not enter the
\* offer-alternatives flow of a fully booked slot for it.
C9_OutOfBoundsClassified ==
    (ReplyHandled /\ ~RequestedIsSlot) =>
        /\ avail.response.reason = "time_out_of_bounds"
        /\ voice.conversationStage # "offering_slots"

\* C10: a requested time that is a generated slot held by a pending or
\* confirmed appointment is classified fully_booked, and the alternatives
\* offered are exactly the generated slots of that date that are not taken.
C10_FullyBookedAlternatives ==
    (/\ ReplyHandled
     /\ RequestedIsSlot
     /\ SlotHeld(avail.targetDoctorId, avail.date, voice.data.time)) =>
        /\ avail.response.reason = "fully_booked"
        /\ { voice.data.suggestedSlots[k].time : k \in 1..Len(voice.data.suggestedSlots) }
             = { avail.response.slots[k].time :
                   k \in { j \in 1..Len(avail.response.slots) :
                             ~SlotHeld(avail.targetDoctorId, avail.date,
                                       avail.response.slots[j].time) } }

\* The reply of a second request has arrived while the client still holds
\* the slot list of the first one for the same doctor and date.
SecondReply ==
    /\ voice.awaiting
    /\ voice.conversationStage = "offering_slots"
    /\ avail.pc = "done" /\ avail.response.code = 200 /\ avail.response.available

C12_OneRowPerDoctorDay ==
    \A a, b \in doctor_availability :
        (a.doctor_id = b.doctor_id /\ a.day_of_week = b.day_of_week) => a = b

\* An accepted update has replaced d1's sample Monday row and added a
\* Tuesday row.
C12_Witness ==
    /\ doctorRes.code = 200
    /\ SampleRow("d1") \notin doctor_availability
    /\ \E a, b \in doctor_availability :
          /\ a.doctor_id = "d1" /\ a.day_of_week = "Monday"
          /\ b.doctor_id = "d1" /\ b.day_of_week = "Tuesday"

\* C13: every stored availability row has its start_time strictly before its
\* end_time; an update with a day that starts at or after its end is not
\* stored.
C13_StartBeforeEnd ==
    \A row \in doctor_availability :
        MinuteOf(row.start_time) < MinuteOf(row.end_time)

\* The doctors whose specialty label contains the request's specialty,
\* letter case apart
MatchesSpecialty(b) ==
    IF b.speciality = <<>> THEN {}
    ELSE {d \in DoctorsTable : ILike(d.specialty, b.speciality)}

\* The doctor the matcher's answer names, when the answer is to be accepted
Accepted(m) ==
    {d \in DoctorsTable : ~m.throws /\ m.match_id = d.id /\ m.confidence > 6}

\* C14 as stated: a request whose specialty matches a doctor's specialty
\* label has its doctor chosen by that specialty match, before any name match
\* is attempted: the doctor chosen for it is one of that specialty.
C14_SpecialtyFirst ==
    \A r \in Reqs :
        (/\ book[r].selectedDoctor # NoDoctor
         /\ MatchesSpecialty(book[r].body) # {})
        => book[r].selectedDoctor \in MatchesSpecialty(book[r].body)

\* C14, amended: the name match is tried first.  When the request names a
\* doctor and the matcher's answer is accepted, that doctor is chosen whatever
\* the specialty says; the specialty match chooses only when the name match
\* yields no doctor.
C14_NameFirst ==
    [][\A r \in Reqs, b \in Bodies, m \in MatchResults :
          (Book_Lookup(r, b, m) /\ ~MissingRequired(b))
          => /\ Accepted(m) # {}
                => book'[r].pc = "resolved" /\ book'[r].selectedDoctor \in Accepted(m)
             /\ (Accepted(m) = {} /\ MatchesSpecialty(b) # {})
                => book'[r].pc = "resolved" /\ book'[r].selectedDoctor \in MatchesSpecialty(b)]_vars

\* A request that asked for a cardiologist got the doctor the name match
\* chose, who is none.
C14_Witness ==
    \E r \in Reqs :
        /\ book[r].pc = "resolved"
        /\ MatchesSpecialty(book[r].body) # {}
        /\ book[r].selectedDoctor \notin MatchesSpecialty(book[r].body)

\* C15: a name match is accepted only with a confidence above 0.6 and a
\* match id of the roster; with a confidence of 0.6 or less, a null id or an
\* id outside the roster the name is unresolved, and the request falls
\* through to the specialty match or to the 404 of no doctor found.
C15_ConfidentRosterMatch ==
    [][\A r \in Reqs, b \in Bodies, m \in MatchResults :
          (/\ Book_Lookup(r, b, m)
           /\ ~MissingRequired(b)
           /\ ~(m.match_id \in DoctorIds /\ m.confidence > 6))
          => IF MatchesSpecialty(b) # {}
             THEN book'[r].pc = "resolved" /\ book'[r].selectedDoctor \in MatchesSpecialty(b)
             ELSE /\ book'[r].pc = "done"
                  /\ book'[r].response.code = 404
                  /\ book'[r].selectedDoctor = NoDoctor]_vars

\* A request that named a doctor and no specialty ended with 404: the
\* matcher's answer was not accepted.
C15_Witness ==
    \E r \in Reqs :
        /\ book[r].pc = "done"
        /\ book[r].response.code = 404
        /\ book[r].body.doctor = Smith
        /\ book[r].body.speciality = <<>>

\* C16: when neither the name match nor the specialty match yields a
\* doctor, the request ends with 404, its details carry the original search
\* term, and neither an appointment nor a notification is inserted.
C16_ProviderNotFound ==
    [][\A r \in Reqs, b \in Bodies, m \in MatchResults :
          (/\ Book_Lookup(r, b, m)
           /\ ~MissingRequired(b)
           /\ Accepted(m) = {}
           /\ MatchesSpecialty(b) = {})
          => /\ book'[r].pc = "done"
             /\ book'[r].response.code = 404
             /\ book'[r].response.details.text = "No doctor found for: "
             /\ book'[r].response.details.term
                   = (IF b.doctor # <<>> THEN b.doctor ELSE b.speciality)
             /\ book'[r].appointment = NoAppointment
             /\ appointments' = appointments
             /\ notifications' = notifications]_vars

\* A request was answered 404 with its doctor's name while another one has
\* booked.
C16_Witness ==
    \E r \in Reqs :
        /\ book[r].pc = "done"
        /\ book[r].response.code = 404
        /\ book[r].response.details.term = Smith
        /\ Len(appointments) = 1
        /\ Len(notifications) = 1

\* C17: a request that lacks date, time or patientId is answered 400 when it
\* arrives, before any doctor lookup or store access: no doctor is resolved
\* for it, even a failing lookup does not show, and nothing is inserted.
C17_ValidationFirst ==
    [][\A r \in Reqs :
          (/\ book[r].pc = "idle"
           /\ book'[r].pc # "idle"
           /\ \/ book'[r].body.date = NoVal
              \/ book'[r].body.time = <<>>
              \/ book'[r].body.patientId = NoVal)
          => /\ book'[r].pc = "done"
             /\ book'[r].response.code = 400
             /\ book'[r].selectedDoctor = NoDoctor
             /\ book'[r].appointment = NoAppointment
             /\ appointments' = appointments
             /\ notifications' = notifications]_vars

\* Requests without a date and without a patient were answered 400.
C17_Witness ==
    \E r1, r2 \in Reqs :
        /\ book[r1].pc = "done" /\ book[r1].response.code = 400
        /\ book[r1].body.date = NoVal /\ book[r1].body.doctor # <<>>
        /\ book[r2].pc = "done" /\ book[r2].response.code = 400
        /\ book[r2].body.patientId = NoVal /\ book[r2].body.doctor # <<>>

\* C18: a request that names no doctor but carries a specialty, with date,
\* time and patientId, is resolved through the specialty match: it is not
\* turned away as invalid, and its doctor is one of that specialty.
C18_SpecialtyOnlyResolved ==
    \A r \in Reqs :
        (/\ book[r].pc # "idle"
         /\ book[r].body.doctor = <<>>
         /\ book[r].body.date # NoVal
         /\ book[r].body.time # <<>>
         /\ book[r].body.patientId # NoVal
         /\ MatchesSpecialty(book[r].body) # {})
        => /\ book[r].response.code # 400
           /\ book[r].selectedDoctor \in MatchesSpecialty(book[r].body)

\* C19: every appointment the booking handler inserts is pending and has
\* the booking method voice when it is created, whatever the body carries.
C19_CreatedPending ==
    [][Len(appointments') > Len(appointments)
          => /\ appointments'[Len(appointments')].status = "pending"
             /\ appointments'[Len(appointments')].booking_method = "voice"
             /\ \A r \in Reqs :
                   book'[r].appointment # book[r].appointment
                      => /\ book'[r].appointment = appointments'[Len(appointments')]
                         /\ book'[r].appointment.status = "pending"]_vars

\* A request whose body asked for status confirmed and method web got a
\* pending voice appointment.
C19_Witness ==
    \E r \in Reqs :
        /\ book[r].body.status = "confirmed"
        /\ book[r].body.booking_method = "web"
        /\ book[r].appointment.id # 0
        /\ book[r].appointment.status = "pending"
        /\ book[r].appointment.booking_method = "voice"

\* The appointment with this id belongs to the doctor record of the user.
Owns(user, id) ==
    \E i \in 1..Len(appointments), d \in DoctorsTable :
        /\ appointments[i].id = id
        /\ d.user_id = user
        /\ appointments[i].doctor_id = d.id

C21_StatusTransitions ==
    [][\A i \in 1..Len(appointments) :
          /\ appointments'[i].status
                \in {"pending", "confirmed", "cancelled", "completed", "no-show"}
          /\ appointments'[i].status # appointments[i].status
                => <<appointments[i].status, appointments'[i].status>>
                      \in { <<"pending", "confirmed">>, <<"pending", "cancelled">>,
                            <<"confirmed", "completed">>, <<"confirmed", "no-show">> }]_vars

\* The identity that sends each booking request.  The handler reads req.body
\* only: no session, token or header of the caller reaches its code.
Caller == [r \in Reqs |-> IF r = "r1" THEN "u3" ELSE "u1"]

\* C22: the booking handler creates an appointment only for the patient record
\* owned by the calling identity: no caller creates an appointment whose
\* patient_id is the patient record of another identity.
C22_OwnPatientOnly ==
    \A r \in Reqs :
        book[r].appointment.id # 0 =>
            \E p \in patients :
                /\ p.id = book[r].appointment.patient_id
                /\ p.user_id = Caller[r]

(***************************************************************************)
(* Booking requests against doctors who have saved a weekly schedule.      *)
(***************************************************************************)
\* d1's Monday as the schedule page may have saved it: the sample day, a
\* day opening at 10:00, a day opening on the quarter hour, a day switched
\* off
BookingSchedules ==
    { {SampleRow("d1"), SampleRow("d2")},
      {AvailabilityRow("d1", "Monday", 600, 720, TRUE), SampleRow("d2")},
      {AvailabilityRow("d1", "Monday", 555, 720, TRUE), SampleRow("d2")},
      {AvailabilityRow("d1", "Monday", 540, 1020, FALSE), SampleRow("d2")} }

InitOnSchedule ==
    /\ appointments = <<>>
    /\ notifications = <<>>
    /\ doctor_availability \in BookingSchedules
    /\ book = [r \in Reqs |-> IdleBook]
    /\ avail = IdleAvail
    /\ voice = IdleVoice
    /\ doctorRes = NoDoctorReply
    /\ auth = IdleAuth
    /\ patients = PatientsTable
    /\ create = [c \in Creators |-> IdleCreate]

SpecOnSchedule == InitOnSchedule /\ [][NextRace]_vars

\* The appointment a lies on a slot that check-availability generates from
\* the active schedule row of its doctor for the weekday of its date
OnGeneratedSlot(a) ==
    \E row \in ScheduleRows(doctor_availability, a.doctor_id, DayOfWeek(a.appointment_date)) :
        LET slots == GenerateSlots(SetHours(row.start_time), SetHours(row.end_time))
        IN  \E i \in 1..Len(slots) : slots[i].time = HourMinute(a.appointment_time)

\* C23: every appointment the booking handler inserts lies on a generated
\* slot of its doctor's active availability for its date: never on a weekday
\* switched off, outside the window or off the 30-minute grid.
C23_InsertedOnSlot ==
    \A r \in Reqs :
        book[r].appointment.id # 0 => OnGeneratedSlot(book[r].appointment)

\* An appointment inserted outside the active window of its doctor's day
C23_OutsideWindow ==
    \E r \in Reqs :
        /\ book[r].appointment.id # 0
        /\ AvailabilityRow("d1", "Monday", 600, 720, TRUE) \in doctor_availability
        /\ book[r].appointment.doctor_id = "d1"
        /\ HourMinute(book[r].appointment.appointment_time) = TimeString(540)

(***************************************************************************)
(* Booking requests against a store that carries out every call; an insert *)
(* the slot index refuses is still refused.                                *)
(***************************************************************************)
NextBooking ==
    \/ \E r \in Reqs, b \in Bodies, m \in MatchResults : Book_Lookup(r, b, m)
    \/ \E r \in Reqs : Book_ConflictCheck(r, FALSE)
    \/ \E r \in Reqs : Book_Insert(r, FALSE)
    \/ \E r \in Reqs : Book_Notify(r, "ok")

SpecBooking == Init /\ [][NextBooking]_vars

\* The notifications that refer to the appointment id
NotificationsOf(id) == {j \in 1..Len(notifications) : notifications[j].related_id = id}

\* C24: the handler inserts exactly one notification for each appointment it
\* creates, addressed to the user identity of the resolved doctor and referring
\* to the appointment id, and only after the appointment insert has succeeded;
\* a request that ends in a validation, not-found, conflict or insert error
\* inserts no notification.
C24_OneNotificationPerAppointment ==
    /\ \A r \in Reqs :
          /\ book[r].pc = "done" /\ book[r].response.code = 200
                => /\ Cardinality(NotificationsOf(book[r].appointment.id)) = 1
                   /\ \A j \in NotificationsOf(book[r].appointment.id) :
                         notifications[j].user_id = book[r].selectedDoctor.user_id
          /\ book[r].pc = "inserted" => NotificationsOf(book[r].appointment.id) = {}
    /\ \A j \in 1..Len(notifications) :
          \E i \in 1..Len(appointments) :
              /\ appointments[i].id = notifications[j].related_id
              /\ \E d \in DoctorsTable :
                    d.id = appointments[i].doctor_id /\ d.user_id = notifications[j].user_id
    /\ Len(notifications) =
          Cardinality({r \in Reqs : book[r].pc = "done" /\ book[r].response.code = 200})

\* Both requests have answered, one with the appointment it created and its
\* notification, the other with a conflict
C24_Witness ==
    \E r, q \in Reqs :
        /\ book[r].pc = "done" /\ book[r].response.code = 200
        /\ NotificationsOf(book[r].appointment.id) # {}
        /\ book[q].pc = "done" /\ book[q].response.code = 409
        /\ Len(notifications) = 1

\* C25: when the conflict query that precedes the insert fails with a store
\* error, the booking handler does not insert an appointment.
C25_FailedCheckNoInsert ==
    [][\A r \in Reqs :
          book[r].pc = "checked" /\ book[r].conflictError /\ book'[r].pc # "checked"
              => book'[r].appointment.id = 0 /\ appointments' = appointments]_vars

(***************************************************************************)
(* A held slot that its doctor confirms or releases: the status update, the*)
(* availability check of the conversational client and a booking request.  *)
(***************************************************************************)
InitRelease ==
    /\ appointments =
          Numbered({SeedRow("d1", "2025-12-01", TimeColumn(TimeString(570)), "pending")}, 1)
    /\ notifications = <<>>
    /\ doctor_availability = {SampleRow("d1"), SampleRow("d2")}
    /\ book = [r \in Reqs |-> IdleBook]
    /\ avail = IdleAvail
    /\ doctorRes = NoDoctorReply
    /\ auth = IdleAuth
    /\ patients = PatientsTable
    /\ create = [c \in Creators |-> IdleCreate]
    /\ voice = [IdleVoice EXCEPT !.conversationStage = "asking_time",
                                 !.data.doctor = DrSmith, !.data.date = "2025-12-01",
                                 !.isRecording = TRUE]

NextRelease ==
    \/ \E u \in Users, id \in 1..Len(appointments), s \in {"confirmed", "cancelled"} :
          handlePatch(u, id, s, FALSE)
    \/ \E t \in RequestedTimes : handleTimeResponse(t)
    \/ CheckAvailability_FindDoctor(voice.data.doctor, voice.data.date, FALSE)
    \/ CheckAvailability_Schedule(FALSE)
    \/ CheckAvailability_Appointments(FALSE)
    \/ checkAvailability
    \/ \E b \in {x \in Bodies : ~MissingRequired(x)}, m \in MatchResults : Book_Lookup("r1", b, m)
    \/ Book_ConflictCheck("r1", FALSE)
    \/ Book_Insert("r1", FALSE)
    \/ Book_Notify("r1", "ok")

SpecRelease == InitRelease /\ [][NextRelease]_vars

\* The slot has a cancelled appointment and no pending or confirmed one
Released(d, date, time) ==
    /\ ~SlotHeld(d, date, time)
    /\ \E i \in 1..Len(appointments) :
          /\ appointments[i].doctor_id = d
          /\ appointments[i].appointment_date = date
          /\ HourMinute(appointments[i].appointment_time) = HourMinute(time)
          /\ appointments[i].status = "cancelled"

\* C26: once the owning doctor has set an appointment to cancelled and no
\* other pending or confirmed appointment holds its doctor, date and time,
\* check-availability reports the slot as available and a booking request
\* for it passes the conflict check and the insert.
C26_CancelledSlotReusable ==
    [][/\ avail.pc = "slots" /\ avail'.pc = "done" /\ avail'.response.code = 200
            => \A i \in 1..Len(avail'.response.slots) :
                  Released(avail.targetDoctorId, avail.date, avail'.response.slots[i].time)
                      => avail'.response.slots[i].available
       /\ \A r \in Reqs :
             /\ book[r].pc \in {"resolved", "checked"}
             /\ book'[r].pc # book[r].pc
             /\ Released(book[r].selectedDoctor.id, book[r].body.date, TimeColumn(book[r].body.time))
             => /\ book'[r].pc \in {"checked", "inserted"}
                /\ book[r].pc = "checked" => book'[r].appointment \in SeqToSet(appointments')]_vars

\* The doctor has cancelled appointment 1, the check has reported 09:30 as
\* available and a request has booked it
C26_Witness ==
    /\ appointments[1].status = "cancelled"
    /\ avail.pc = "done"
    /\ \E i \in 1..Len(avail.response.slots) :
          avail.response.slots[i].time = TimeString(570) /\ avail.response.slots[i].available
    /\ \E r \in Reqs :
          /\ book[r].pc = "done" /\ book[r].response.code = 200
          /\ book[r].appointment.doctor_id = "d1"
          /\ HourMinute(book[r].appointment.appointment_time) = TimeString(570)

(***************************************************************************)
(* A conversation of the voice assistant with the availability check and   *)
(* the booking request it sends; d1 may have a pending appointment at 09:30.*)
(***************************************************************************)
MaxAppointments == 2

InitVoice ==
    /\ appointments \in
          { <<>>,
            Numbered({SeedRow("d1", "2025-12-01", TimeColumn(TimeString(570)), "pending")}, 1) }
    /\ notifications = <<>>
    /\ doctor_availability = {SampleRow("d1"), SampleRow("d2")}
    /\ book = [r \in Reqs |-> IdleBook]
    /\ avail = IdleAvail
    /\ doctorRes = NoDoctorReply
    /\ auth = IdleAuth
    /\ patients = PatientsTable
    /\ create = [c \in Creators |-> IdleCreate]
    /\ voice = IdleVoice

NextVoice ==
    \/ setPatientId
    \/ startConversation
    \/ processAudio_Repeat
    \/ \E doctor \in {DrSmith, Jones} : handleDoctorResponse(doctor)
    \/ \E date \in Dates : handleDateResponse(date)
    \/ \E t \in RequestedTimes : handleTimeResponse(t)
    \/ \E failed \in BOOLEAN :
          CheckAvailability_FindDoctor(voice.data.doctor, voice.data.date, failed)
    \/ \E failed \in BOOLEAN : CheckAvailability_Schedule(failed)
    \/ \E failed \in BOOLEAN : CheckAvailability_Appointments(failed)
    \/ checkAvailability
    \/ offeringSlots_Negation
    \/ confirming_StartOver
    \/ Len(appointments) < MaxAppointments /\ confirmBooking("r1")
    \/ \E m \in MatchResults : voice.booking /\ Book_Lookup("r1", Payload, m)
    \/ Book_ConflictCheck("r1", FALSE)
    \/ Book_Insert("r1", FALSE)
    \/ Book_Notify("r1", "ok")
    \/ confirmBooking_Reply("r1")
    \/ closeModal

SpecVoice == InitVoice /\ [][NextVoice]_vars

\* C27: the time the voice assistant sends in the booking request is a time
\* that the most recent availability check reported as available; after slots
\* were offered and the user accepts, the booking is made for an offered slot
\* and not for the unavailable time the user asked for first.
C27_BookedTimeWasAvailable ==
    [][~voice.booking /\ voice'.booking
          => /\ avail.pc = "done" /\ avail.response.code = 200
             /\ IsTimeAvailable(avail.response.slots, voice'.data.time)]_vars

\* C28: after every utterance processed in an active stage the assistant
\* listens again or has reached completed: it is never in an active stage
\* without recording once its requests have been answered, also when the
\* transcription, the interpretation, the availability check or the booking
\* request fails.
C28_ListensAgain ==
    voice.conversationStage \in ActiveStages /\ ~voice.awaiting /\ ~voice.booking
        => voice.isRecording

(***************************************************************************)
(* The auth events of one browser session.                                 *)
(***************************************************************************)
MaxAuthEvents == 2

NextAuth ==
    \/ \E session \in {NoVal, "u1", "u3"}, failed \in BOOLEAN : checkUser_GetSession(session, failed)
    \/ \E failed \in BOOLEAN : checkUser_Profile(failed)
    \/ authTimeout
    \/ \E session \in {NoVal, "u1", "u3"} :
          auth.events < MaxAuthEvents /\ onAuthStateChange(session)
    \/ \E failed \in BOOLEAN : onAuthStateChange_Profile(failed)
    \/ signOut

SpecAuth == Init /\ [][NextAuth]_vars

\* The role lists of withPatient, withDoctor and withAdmin
RoleLists == { {"patient"}, {"doctor"}, {"admin"} }

\* C29: a page wrapped by withAuth with a non-empty list of allowed roles
\* renders its component only while a user is signed in and the role of the
\* profile is in the list, in every state reachable through auth events.
C29_RendersOnlyForRole ==
    \A allowedRoles \in RoleLists :
        RendersComponent(allowedRoles)
            => auth.user # NoVal /\ auth.userProfile \in allowedRoles

(***************************************************************************)
(* Lazy creations of the patient profile of user u3, who may have none.    *)
(***************************************************************************)
InitProfile ==
    /\ appointments = <<>>
    /\ notifications = <<>>
    /\ doctor_availability = {}
    /\ book = [r \in Reqs |-> IdleBook]
    /\ avail = IdleAvail
    /\ voice = IdleVoice
    /\ doctorRes = NoDoctorReply
    /\ auth = IdleAuth
    /\ patients \in {PatientsTable, {p \in PatientsTable : p.user_id # "u3"}}
    /\ create = [c \in Creators |-> IdleCreate]

NextProfile ==
    \/ \E c \in Creators, kind \in {"client", "lazy", "fix"}, failed \in BOOLEAN :
          Create_Select(c, "u3", kind, failed)
    \/ \E c \in Creators, failed \in BOOLEAN : Create_Insert(c, "u3", failed)

SpecProfile == InitProfile /\ [][NextProfile]_vars

====
